---- MODULE Spec2Model ----
(***************************************************************************)
(* The collection loops of the psyduck plugins deepscrape, webscrape and   *)
(* fb-scrape: the round loop, its termination policy, its acceptance       *)
(* filter and deduplication, and the hand-over of the accepted records to  *)
(* the CSV sink.  The browser (Navigator) and the vision model (Oracle)    *)
(* are the environment: every reply they can give is a nondeterministic    *)
(* choice.                                                                 *)
(***************************************************************************)
EXTENDS Integers, Sequences, FiniteSets, TLC

VARIABLES
    plugin,         \* which command runs: "deepscrape", "webscrape", "fb"
    args,           \* the command line and the environment: OPENAI_API_KEY set,
                    \* the text after --depth=, the text after --location=
    source,         \* what the rendered source shows: "any", "stream", "stall", "idless",
                    \* "replies" (any, and pages the depth Oracle describes in any way)
    shown,          \* how many distinct records the source has shown (stream, stall)
    want,           \* want_results / max_results / max_posts
    depth,          \* deepscrape --depth
    deadline,       \* deepscrape: time.time() + max(1, timeout_s)
    now,            \* time.time()
    targets,        \* deepscrape: plan.get('targets', ...)
    ti,             \* deepscrape: index of the next target of `for target in targets`
    pc,             \* position of the run
    collected,      \* collected: the accepted records, in order
    seen,           \* webscrape seen_urls / fb-scrape seen_ids
    fail_rounds,    \* consecutive rounds that accepted nothing
    scrolls,        \* scrolls / scroll_count
    rounds,         \* history: the Oracle extraction calls the current loop has made
    batch_left,     \* how many items of the current batch are still to be looked at
    new_in_batch,   \* new_in_batch / new_count
    reply,          \* kind of the Oracle's reply in the current round
    record,         \* deepscrape: the record under enrichment; fb-scrape: the post under work
    detailed_comments, \* fb-scrape: the local detailed_comments (unbound until first assigned)
    dropped,        \* webscrape, history: the result the current round last skipped as
                    \* already seen, NoCand when the last result was not skipped so
    advanced,       \* how the view was last advanced: "none", "load_more", "pagination", "scroll"
    attempts,       \* what the last advance tried, in the order it tried
    tabs,           \* deepscrape: secondary tabs (ctx.new_page() for a record) that are open
    primary_page,   \* what the primary page shows: "about:blank", "results", "detail"
    detail,         \* deepscrape: how the last _analyze_page_depth ended: "none", "failed", "parsed"
    csv,            \* rows of the output file (the header row included)
    csv_exists,     \* os.path.exists(out_path)
    returned,       \* the count _run returned (-1: it has not returned)
    writers         \* concurrent _write_csv calls on one path: where each is, its
                    \* new_file, the rows in its file object's buffer, its results

vars == <<plugin, args, source, shown, want, depth, deadline, now, targets, ti, pc, collected,
          seen, fail_rounds, scrolls, batch_left, new_in_batch, reply, record,
          detailed_comments, dropped, advanced, attempts, rounds, tabs, primary_page, detail, csv, csv_exists, returned, writers>>

\* The inputs of a run, which no step changes
params == <<plugin, args, source, want, depth, deadline, targets>>

\* The tabs of the browser and the last enrichment
tabv == <<tabs, primary_page, detail>>

\* The output file and the value the run returns
sinkv == <<csv, csv_exists, returned>>

----------------------------------------------------------------------------
(* Bounds of the model *)

MaxWant == 2
MaxBatch == 2
MaxTimeout == 1
MaxTargets == 2
MaxStreamWant == 21
\* A stalling source shows StallRecords distinct records and then nothing new
StallRecords == 3
\* The sink on its own: the data rows a file grows to, the records of one append
MaxFileRows == 3
MaxSinkBatch == 2
\* The composite cells on their own: the discussion entries of one record
MaxEntries == 2

----------------------------------------------------------------------------
(* Values *)

MISSING == "<missing>"      \* the key is not in the dict
NULL == "<null>"            \* JSON null (Python None)
Max(a, b) == IF a > b THEN a ELSE b

\* str.strip() on the texts of the model
Strip(s) ==
    CASE s = " " -> ""
      [] s = " B" -> "B"
      [] s = "  a short one  " -> "a short one"
      [] s = " tiny     " -> "tiny"
      [] OTHER -> s

\* dict.get(key, default): the value, or the default when the key is missing
Get(v, default) == IF v = MISSING THEN default ELSE v

\* A JSON boolean of the model
IsTrue(v) == v = "true"

\* Python truthiness of a str-or-None value
Truthy(v) == v # "" /\ v # NULL /\ v # MISSING

\* One element of a parsed JSON array of search results.
\* publisher stands for the fields the loops copy as they are (publisher,
\* excerpt, rank).
DictP(u, t, p) == [shape |-> "dict", url |-> u, title |-> t, publisher |-> p]
Dict(u, t) == DictP(u, t, MISSING)
Junk == [shape |-> "other", url |-> MISSING, title |-> MISSING, publisher |-> MISSING]

\* No candidate
NoCand == [shape |-> "none"]

Items ==
    { Dict("u1", "A"), DictP("u2", "A", "P"), Dict("u1", " B"),
      Dict(MISSING, "A"), Dict("", "A"), Dict(NULL, "A"),
      Dict("u1", ""), Dict("u2", " "), Dict("u1", NULL), Junk }

\* One element of a parsed JSON array of posts.  top_comments: "own" (a list of
\* this post's comments), MISSING, NULL, or "bad" (a list with an entry whose
\* text is null).
Post(id, hashtag, text, post_text, comments) ==
    [shape |-> "dict", post_id |-> id, is_hashtag_only |-> hashtag,
     has_text_content |-> text, post_text |-> post_text, top_comments |-> comments]
PostJunk == [shape |-> "other", post_id |-> MISSING, is_hashtag_only |-> MISSING,
             has_text_content |-> MISSING, post_text |-> MISSING, top_comments |-> MISSING]

Posts ==
    { Post("p1", "false", "true", "  a short one  ", "own"),
      Post("p2", MISSING, "true", "a long post text", MISSING),
      Post(MISSING, "false", "true", "a long post text", MISSING),
      Post("p1", "true", "true", "a long post text", "own"),
      Post("p2", "false", MISSING, "a long post text", MISSING),
      Post("p1", "false", "true", " tiny     ", MISSING),
      Post("p2", "false", "true", MISSING, MISSING),
      Post("p1", "false", "true", NULL, MISSING),
      Post("p2", "false", "true", "a long post text", NULL),
      Post("p1", "false", "true", "a long post text", "bad"),
      PostJunk }

\* Posts without a native post_id: two with sufficient content, a
\* hashtag-only one and one with too short a text
IdlessPosts ==
    { Post(MISSING, "false", "true", "a long post text", MISSING),
      Post(MISSING, "false", "true", "another long text", MISSING),
      Post(MISSING, "true", "true", "#tags #only #here", MISSING),
      Post(MISSING, "false", "true", " tiny     ", MISSING) }


----------------------------------------------------------------------------
(* The Extraction Oracle *)

\* What the vision model can answer to one extraction request: the API call
\* raises, the text holds no [...] slice, the slice is not JSON, or it is an
\* array of n elements.  The loops read the array only by iterating over it, so
\* the model keeps its length and lets the source choose each element when the
\* iteration reaches it (BatchItems).
\* n counts the complete elements in the reply's text: a reply cut off in the
\* middle of its array ("bad_json") can still hold one.
FailedKinds == {"api_error", "no_array", "bad_json"}
FailedReplies ==
    { [kind |-> "api_error", n |-> 0], [kind |-> "no_array", n |-> 0],
      [kind |-> "bad_json", n |-> 1] }

OracleReplies ==
    CASE source = "stream" -> { [kind |-> "array", n |-> 1] }
      [] source = "stall" /\ shown < StallRecords ->
            { [kind |-> "array", n |-> n] : n \in 1..MaxBatch }
      [] OTHER -> FailedReplies \cup { [kind |-> "array", n |-> n] : n \in 0..MaxBatch }

\* The k-th distinct record of a stream or stall source: valid, with its own identity
SourceItem(k) ==
    IF plugin = "fb"
    THEN Post(ToString(k), "false", "true", "a long post text", MISSING)
    ELSE Dict(ToString(k), "A")

\* stream: always a record not shown before.  stall: a new one until
\* StallRecords were shown, then only records shown before.
BatchItems ==
    CASE source = "stream" -> { SourceItem(shown + 1) }
      [] source = "stall" ->
            IF shown < StallRecords THEN { SourceItem(shown + 1) }
            ELSE { SourceItem(k) : k \in 1..StallRecords }
      [] source = "idless" /\ plugin = "fb" -> IdlessPosts
      [] plugin = "fb" -> Posts
      [] OTHER -> Items

\* The source has shown one more record when the loop looks at a new one
ShownAfter(item) ==
    IF source # "any" /\ item = SourceItem(shown + 1) THEN shown + 1 ELSE shown

\* (mutant) the except branch missing: whatever the text holds is returned
ExtractSearchResultsUncaught(r) == r.n

\* deepscrape _extract_search_results_via_vision: the length of the list it
\* returns, which is [] on any failure
ExtractSearchResults(r) == IF r.kind = "array" THEN r.n ELSE 0

\* The exceptions that end a run: they leave _run and are printed by the command
Exceptions == {"PlaywrightError", "AttributeError", "TypeError", "UnboundLocalError"}

\* What the Navigator can do to one call: carry it out, or raise.
NavOutcomes == {"ok", "raise"}

\* (mutant) the advance counter left as it is
NextScrollsStuck == scrolls

\* `scrolls += 1` / `scroll_count += 1` at the end of an advance
NextScrolls == scrolls + 1

\* Wall-clock time that can pass during an awaited call.  Past the deadline
\* every comparison of the code reads the same, so the clock stops there.
Elapse == { t \in now..(now + 1) : t <= deadline }

----------------------------------------------------------------------------
(* The sink *)

\* fieldnames: the columns of the model's records, in the order of the code,
\* and scraped_at
Fieldnames ==
    CASE plugin = "deepscrape" -> <<"url", "title", "publisher", "summary", "scraped_at">>
      [] plugin = "webscrape" -> <<"title", "url", "scraped_at">>
      [] OTHER -> <<"scraped_at", "post_id", "post_text", "top_comments">>

\* writer.writeheader(): the row of the column names
HeaderRow == Fieldnames

\* datetime.utcnow().isoformat()
ScrapedAt == "2025-01-01T00:00:00"

\* What the csv writer puts into a cell: None becomes the empty string, a
\* string is written as it is
Format(v) == IF v = NULL THEN "" ELSE v

\* The key of the record a column is filled from
ColumnKey(k) == IF k = "top_comments" THEN "comments_of" ELSE k

\* r.get(key, ''): the value of the key, '' when the record has no such key
GetOr(r, key) == IF key \in DOMAIN r THEN Get(r[key], "") ELSE ""

\* The row _write_csv builds from one record: a cell for every column of the
\* header, in the header's order
Row(r) ==
    [i \in 1..Len(Fieldnames) |->
        IF Fieldnames[i] = "scraped_at" THEN ScrapedAt
        ELSE Format(GetOr(r, ColumnKey(Fieldnames[i])))]

Rows(rs) == [i \in 1..Len(rs) |-> Row(rs[i])]

\* (mutant) the file opened with mode 'w'
WriteCsvTruncating(rs) ==
    /\ csv' = <<HeaderRow>> \o Rows(rs)
    /\ csv_exists' = TRUE

\* _write_csv: open(out_path, 'a'), the header when the file is new, then one
\* row per record
WriteCsv(rs) ==
    /\ csv' = (IF csv_exists THEN csv ELSE <<HeaderRow>>) \o Rows(rs)
    /\ csv_exists' = TRUE

\* fb-scrape: detailed_comments before its first assignment
Unbound == [bound |-> FALSE, of |-> "", n |-> 0]

----------------------------------------------------------------------------
(* deepscrape *)

FAIL_LIMIT_DS == 3
MAX_SCROLLS_DS == 8

\* --depth: the loop reads it only as `depth > 0`, so tiers 2 and 3 take the
\* path of tier 1
Depths == {0, 1}

Engines == <<"duckduckgo", "google", "bing">>
Plans == { [i \in 1..n |-> Engines[((i - 1) % 3) + 1]] : n \in 0..MaxTargets }

\* A dict of the keys of the model; MISSING marks a key the dict does not have
Fields(d) == { k \in DOMAIN d : d[k] # MISSING }

\* A JSON object the depth Oracle can return
DepthObject(u, t, p, sm) == [url |-> u, title |-> t, publisher |-> p, summary |-> sm]

\* How one _analyze_page_depth call can go: detail.goto or the screenshot
\* raises, the API call raises, the text holds no {...} slice or is not JSON,
\* or an object is parsed.  The pages of a stream or stall source give nothing
\* usable.
DepthFailures == { [kind |-> k, obj |-> DepthObject(MISSING, MISSING, MISSING, MISSING)] :
                     k \in {"goto_error", "api_error", "no_object", "bad_json"} }
\* Objects the depth Oracle can return: keys absent, null, empty or filled
DepthObjects ==
    { DepthObject(u, t, p, sm) :
        u \in {MISSING, NULL, "elsewhere"}, t \in {MISSING, NULL, "", "D"},
        p \in {MISSING, "Q"}, sm \in {MISSING, NULL, "S"} }

AllDepthOutcomes ==
    DepthFailures \cup { [kind |-> "parsed", obj |-> o] : o \in DepthObjects }

DepthOutcomes ==
    CASE source = "any" ->
            DepthFailures \cup
            { [kind |-> "parsed", obj |-> DepthObject("elsewhere", "D", MISSING, "S")] }
      [] source = "replies" -> AllDepthOutcomes
      [] OTHER -> DepthFailures

\* (mutant) `data` made of the columns of the CSV, blank
DepthDataBlank(url) == DepthObject(url, "", MISSING, "")

\* `data: Dict = {"url": url}`
DepthData(url) == DepthObject(url, MISSING, MISSING, MISSING)

\* (mutant) the parsed object returned as the Oracle gave it
AnalyzePageDepthAsParsed(url, d, out) ==
    IF d <= 0 THEN DepthData(url)
    ELSE IF out.kind = "parsed" THEN out.obj
    ELSE DepthData(url)

\* _analyze_page_depth: `data` at depth 0 and on every failure, else the parsed
\* object with parsed["url"] = url
AnalyzePageDepth(url, d, out) ==
    IF d <= 0 THEN DepthData(url)
    ELSE IF out.kind = "parsed" THEN [out.obj EXCEPT !.url = url]
    ELSE DepthData(url)

\* The dicts _analyze_page_depth can return for one page
DetailReplies(url) == { AnalyzePageDepth(url, depth, out) : out \in DepthOutcomes }

\* (mutant) record = detail_data
UpdateReplaces(rec, data) == data

\* record.update(detail_data)
Update(rec, data) == [k \in DOMAIN rec |-> Get(data[k], rec[k])]

\* The record built from a search result before any enrichment
BaseRecord(item) ==
    [url |-> item.url, title |-> Strip(item.title),
     publisher |-> Get(item.publisher, ""), summary |-> MISSING]

\* (mutant) the gate of the enrichment left out
WantsEnrichmentAlways == TRUE

\* `if depth > 0:`
WantsEnrichment == depth > 0

\* (mutant) the tab left open
TabsLeftOpen == tabs

\* `finally: await detail.close()`
TabsAfterClose == tabs - 1

\* The page object _analyze_page_depth navigates: the `detail` tab
EnrichmentPage == "detail"

NoRecord == [url |-> MISSING, title |-> MISSING, publisher |-> MISSING, summary |-> MISSING]

\* The `for target in targets:` header, its break, page.goto and asyncio.sleep(2)
DsNextTarget ==
    /\ plugin = "deepscrape" /\ pc = "ds_target"
    /\ IF ti > Len(targets) \/ now >= deadline \/ Len(collected) >= want
       THEN /\ pc' = "ds_close"
            /\ UNCHANGED <<now, ti, fail_rounds, scrolls, rounds, primary_page>>
       ELSE \E nav \in NavOutcomes :
              IF nav = "raise"
              THEN /\ pc' = "PlaywrightError"
                   /\ UNCHANGED <<now, ti, fail_rounds, scrolls, rounds, primary_page>>
              ELSE /\ pc' = "ds_while"
                   /\ ti' = ti + 1
                   /\ fail_rounds' = 0
                   /\ scrolls' = 0
                   /\ rounds' = 0
                   /\ primary_page' = "results"
                   /\ now' \in Elapse
    /\ UNCHANGED <<params, writers, tabs, detail, shown, sinkv, collected, seen, batch_left, new_in_batch, reply,
                   record, detailed_comments, dropped, advanced, attempts>>

\* The `while` condition of a round
DsWhileCond ==
    /\ Len(collected) < want
    /\ now < deadline
    /\ fail_rounds < FAIL_LIMIT_DS
    /\ scrolls < MAX_SCROLLS_DS

\* Top of the while loop: the screenshot and the Oracle call of one round
DsRound ==
    /\ plugin = "deepscrape" /\ pc = "ds_while"
    /\ IF ~DsWhileCond
       THEN /\ pc' = "ds_target"
            /\ UNCHANGED <<now, batch_left, new_in_batch, reply, rounds>>
       ELSE \E nav \in NavOutcomes :
              IF nav = "raise"
              THEN /\ pc' = "PlaywrightError"
                   /\ UNCHANGED <<now, batch_left, new_in_batch, reply, rounds>>
              ELSE \E r \in OracleReplies :
                     /\ reply' = r.kind
                     /\ batch_left' = ExtractSearchResults(r)
                     /\ new_in_batch' = 0
                     /\ rounds' = rounds + 1
                     /\ now' \in Elapse
                     /\ pc' = "ds_item"
    /\ UNCHANGED <<params, writers, tabv, shown, sinkv, ti, collected, seen, fail_rounds, scrolls, record,
                   detailed_comments, dropped, advanced, attempts>>

\* (mutant) no break after the append
BreakAtTargetNever(n) == FALSE

\* `if len(collected) >= want_results: break` after the append, the same test
\* in the three loops (n is len(collected) after the append)
BreakAtTarget(n) == n >= want

\* (mutant) the record put at the head of the list
AcceptedFirst(rec) == <<rec>> \o collected

\* collected.append(record) / collected.append(row_data)
Accepted(rec) == Append(collected, rec)

\* collected.append(record); new_in_batch += 1; break when the target is reached
DsAppend(rec) ==
    /\ collected' = Accepted(rec)
    /\ new_in_batch' = new_in_batch + 1
    /\ IF BreakAtTarget(Len(collected) + 1)
       THEN pc' = "ds_advance" /\ batch_left' = batch_left
       ELSE pc' = "ds_item" /\ batch_left' = batch_left - 1

\* The acceptance filter of deepscrape: `if not url or not title: continue`
DsSkips(item) == ~Truthy(item.url) \/ ~Truthy(Strip(Get(item.title, "")))

\* The body of `for item in batch:` for the candidate `item`, up to the append
\* or the enrichment call
DsCandidate(item) ==
    /\ shown' = ShownAfter(item)
    /\ IF item.shape # "dict" \/ item.title = NULL
       THEN \* item.get / None.strip() raises AttributeError
            /\ pc' = "AttributeError"
            /\ UNCHANGED <<collected, batch_left, new_in_batch, record, tabs>>
       ELSE IF DsSkips(item)
       THEN /\ pc' = "ds_item"
            /\ batch_left' = batch_left - 1
            /\ UNCHANGED <<collected, new_in_batch, record, tabs>>
       ELSE LET rec == BaseRecord(item) IN
            IF WantsEnrichment
            THEN \E nav \in NavOutcomes :
                   \* detail = await ctx.new_page()
                   IF nav = "raise"
                   THEN /\ pc' = "PlaywrightError"
                        /\ UNCHANGED <<collected, batch_left, new_in_batch, record, tabs>>
                   ELSE /\ pc' = "ds_enrich"
                        /\ record' = rec
                        /\ tabs' = tabs + 1
                        /\ UNCHANGED <<collected, batch_left, new_in_batch>>
            ELSE /\ DsAppend(rec)
                 /\ UNCHANGED <<record, tabs>>

\* One iteration of `for item in batch:` up to the append or the enrichment call
DsItem ==
    /\ plugin = "deepscrape" /\ pc = "ds_item"
    /\ IF batch_left = 0 \/ now >= deadline \/ Len(collected) >= want
       THEN /\ pc' = "ds_advance"
            /\ UNCHANGED <<shown, collected, batch_left, new_in_batch, record, tabs>>
       ELSE \E item \in BatchItems : DsCandidate(item)
    /\ UNCHANGED <<params, writers, primary_page, detail, sinkv, now, ti, seen, fail_rounds, scrolls, reply,
                   detailed_comments, dropped, advanced, attempts, rounds>>

\* The end of the enrichment of `record`, _analyze_page_depth having ended as
\* `out`: detail.close(), record.update(detail_data), the append
DsEnriched(out) ==
    /\ DsAppend(Update(record, AnalyzePageDepth(record.url, depth, out)))
    /\ detail' = IF out.kind = "parsed" THEN "parsed" ELSE "failed"
    /\ primary_page' = IF EnrichmentPage = "page" THEN "detail" ELSE primary_page
    /\ tabs' = TabsAfterClose
    /\ now' \in Elapse
    /\ record' = NoRecord

\* _analyze_page_depth in the detail tab up to its pause: detail.goto(url),
\* asyncio.sleep(2).  A goto that raises ends the call with the base data.
DsEnrich ==
    /\ plugin = "deepscrape" /\ pc = "ds_enrich"
    /\ \E nav \in NavOutcomes :
         IF nav = "raise"
         THEN \E out \in { o \in DepthOutcomes : o.kind = "goto_error" } : DsEnriched(out)
         ELSE /\ pc' = "ds_settled"
              /\ now' \in Elapse
              /\ UNCHANGED <<tabv, collected, batch_left, new_in_batch, record>>
    /\ UNCHANGED <<params, writers, shown, sinkv, ti, seen, fail_rounds, scrolls, reply,
                   detailed_comments, dropped, advanced, attempts, rounds>>

\* _analyze_page_depth after its pause: the screenshot, the Oracle call and
\* the parsing of its reply, then the end of the enrichment
DsDepthCall ==
    /\ plugin = "deepscrape" /\ pc = "ds_settled"
    /\ \E out \in DepthOutcomes : DsEnriched(out)
    /\ UNCHANGED <<params, writers, shown, sinkv, ti, seen, fail_rounds, scrolls, reply,
                   detailed_comments, dropped, advanced, attempts, rounds>>

\* (mutant) the else branch missing: fail_rounds is never reset
DsFailRoundsNeverReset == fail_rounds + 1

\* `if new_in_batch == 0: fail_rounds += 1 else: fail_rounds = 0`
DsFailRounds == IF new_in_batch = 0 THEN fail_rounds + 1 ELSE 0

\* (mutant) the scroll guard without its deadline check
DsScrollGuardNoDeadline == Len(collected) < want /\ scrolls < MAX_SCROLLS_DS

\* The guard of the scroll at the end of a round
DsScrollGuard == Len(collected) < want /\ now < deadline /\ scrolls < MAX_SCROLLS_DS

\* After the items of a round: the fail_rounds update and the scroll
DsAdvance ==
    /\ plugin = "deepscrape" /\ pc = "ds_advance"
    /\ fail_rounds' = DsFailRounds
    /\ IF DsScrollGuard
       THEN \E nav \in NavOutcomes :
              IF nav = "raise"
              THEN pc' = "PlaywrightError" /\ UNCHANGED <<now, scrolls, advanced, attempts>>
              ELSE /\ pc' = "ds_while"
                   /\ scrolls' = NextScrolls
                   /\ advanced' = "scroll"
                   /\ attempts' = <<"scroll">>
                   /\ now' \in Elapse
       ELSE pc' = "ds_while" /\ advanced' = "none" /\ attempts' = <<>> /\ UNCHANGED <<now, scrolls>>
    /\ batch_left' = 0
    /\ UNCHANGED <<params, writers, tabv, shown, sinkv, ti, collected, seen, new_in_batch, reply, record,
                   detailed_comments, dropped, rounds>>

\* ctx.close(), _write_csv(term, collected), return out_path, len(collected)
DsFinish ==
    /\ plugin = "deepscrape" /\ pc = "ds_close"
    /\ WriteCsv(collected)
    /\ returned' = Len(collected)
    /\ pc' = "done"
    /\ UNCHANGED <<params, writers, tabv, shown, now, ti, collected, seen, fail_rounds, scrolls, batch_left,
                   new_in_batch, reply, record, detailed_comments, dropped, advanced, attempts, rounds>>

----------------------------------------------------------------------------
(* webscrape *)

FAIL_LIMIT_WS == 3
MAX_SCROLLS_WS == 10

\* _run up to the collection loop: page.goto(search_url), asyncio.sleep(3); the
\* zoom's failure is caught
WsGoto ==
    /\ plugin = "webscrape" /\ pc = "ws_goto"
    /\ \E nav \in NavOutcomes :
         IF nav = "raise"
         THEN pc' = "PlaywrightError" /\ now' = now /\ primary_page' = primary_page
         ELSE pc' = "ws_while" /\ now' \in Elapse /\ primary_page' = "results"
    /\ UNCHANGED <<params, writers, tabs, detail, shown, sinkv, ti, collected, seen, fail_rounds, scrolls, batch_left,
                   new_in_batch, reply, record, detailed_comments, dropped, advanced, attempts, rounds>>

\* The `while` condition of a round
WsWhileCond ==
    /\ Len(collected) < want
    /\ fail_rounds < FAIL_LIMIT_WS
    /\ scrolls < MAX_SCROLLS_WS

\* _analyze_search_results: the length of the list it returns, [] on any failure
AnalyzeSearchResults(r) == IF r.kind = "array" THEN r.n ELSE 0

\* Top of the while loop: the screenshot and the Oracle call of one round
WsRound ==
    /\ plugin = "webscrape" /\ pc = "ws_while"
    /\ IF ~WsWhileCond
       THEN /\ pc' = "ws_close"
            /\ UNCHANGED <<now, batch_left, new_in_batch, reply, rounds>>
       ELSE \E nav \in NavOutcomes :
              IF nav = "raise"
              THEN /\ pc' = "PlaywrightError"
                   /\ UNCHANGED <<now, batch_left, new_in_batch, reply, rounds>>
              ELSE \E r \in OracleReplies :
                     /\ reply' = r.kind
                     /\ batch_left' = AnalyzeSearchResults(r)
                     /\ new_in_batch' = 0
                     /\ rounds' = rounds + 1
                     /\ now' \in Elapse
                     /\ pc' = "ws_item"
    /\ UNCHANGED <<params, writers, tabv, shown, sinkv, ti, collected, seen, fail_rounds, scrolls, record,
                   detailed_comments, dropped, advanced, attempts>>

\* (mutant) the filter without its seen_urls test
WsSkipsNoSeen(url, title) == ~Truthy(title)

\* The acceptance filter of webscrape: `if not title or url in seen_urls: continue`
WsSkips(url, title) == ~Truthy(title) \/ url \in seen
\* The record webscrape builds from an accepted candidate
WsRecord(url, title) == [url |-> url, title |-> title]

\* The body of `for result in results:` for the candidate `item`
WsCandidate(item) ==
    /\ shown' = ShownAfter(item)
    /\ IF item.shape # "dict" \/ item.title = NULL
       THEN \* result.get / None.strip() raises AttributeError
            /\ pc' = "AttributeError"
            /\ dropped' = NoCand
            /\ UNCHANGED <<now, collected, seen, batch_left, new_in_batch>>
       ELSE LET url == Get(item.url, "")
                title == Strip(Get(item.title, ""))
            IN IF WsSkips(url, title)
               THEN /\ pc' = "ws_item"
                    /\ batch_left' = batch_left - 1
                    /\ dropped' = IF Truthy(title) THEN item ELSE NoCand
                    /\ UNCHANGED <<now, collected, seen, new_in_batch>>
               ELSE /\ seen' = seen \cup {url}
                    /\ now' \in Elapse
                    /\ collected' = Accepted(WsRecord(url, title))
                    /\ new_in_batch' = new_in_batch + 1
                    /\ dropped' = NoCand
                    /\ IF BreakAtTarget(Len(collected) + 1)
                       THEN pc' = "ws_advance" /\ batch_left' = batch_left
                       ELSE pc' = "ws_item" /\ batch_left' = batch_left - 1

\* One iteration of `for result in results:`
WsItem ==
    /\ plugin = "webscrape" /\ pc = "ws_item"
    /\ IF batch_left = 0
       THEN /\ pc' = "ws_advance"
            /\ UNCHANGED <<shown, now, collected, seen, batch_left, new_in_batch, dropped>>
       ELSE \E item \in BatchItems : WsCandidate(item)
    /\ UNCHANGED <<params, writers, tabv, sinkv, ti, fail_rounds, scrolls, reply, record,
                   detailed_comments, advanced, attempts, rounds>>

\* (mutant) the else branch missing: a round that accepted keeps the count
WsFailRoundsKept == IF new_in_batch = 0 THEN fail_rounds + 1 ELSE fail_rounds

\* `if new_count == 0: fail_rounds += 1 else: fail_rounds = 0`
WsFailRounds == IF new_in_batch = 0 THEN fail_rounds + 1 ELSE 0

\* (mutant) the guard without its test of the target
WsAdvanceGuardNoTarget == scrolls < MAX_SCROLLS_WS

\* The guard of the advance at the end of a round
WsAdvanceGuard == Len(collected) < want /\ scrolls < MAX_SCROLLS_WS

\* What _try_click_load_more and _try_click_pagination can return
ClickOutcomes == {TRUE, FALSE}

\* (mutant) the next-page link tried before the load-more button
AdvanceChainNextFirst(load_more, pagination) ==
    IF pagination THEN <<"pagination">>
    ELSE IF load_more THEN <<"pagination", "load_more">>
    ELSE <<"pagination", "load_more", "scroll">>

\* `clicked = await _try_click_load_more(...)`, `if not clicked: clicked = await
\* _try_click_pagination(...)`, `if not clicked:` the scroll: what is tried, in
\* order, given what the two clicks return; the last one tried is the one used
AdvanceChain(load_more, pagination) ==
    IF load_more THEN <<"load_more">>
    ELSE IF pagination THEN <<"load_more", "pagination">>
    ELSE <<"load_more", "pagination", "scroll">>

\* After the results of a round: the fail_rounds update, then load more, else
\* pagination, else the scroll; scroll_count += 1 whichever was used
WsAdvance ==
    /\ plugin = "webscrape" /\ pc = "ws_advance"
    /\ fail_rounds' = WsFailRounds
    /\ IF WsAdvanceGuard
       THEN \E load_more \in ClickOutcomes, pagination \in ClickOutcomes, nav \in NavOutcomes :
              IF ~load_more /\ ~pagination /\ nav = "raise"
              THEN pc' = "PlaywrightError" /\ UNCHANGED <<now, scrolls, advanced, attempts>>
              ELSE /\ pc' = "ws_while"
                   /\ attempts' = AdvanceChain(load_more, pagination)
                   /\ advanced' = attempts'[Len(attempts')]
                   /\ scrolls' = NextScrolls
                   /\ now' \in Elapse
       ELSE pc' = "ws_while" /\ advanced' = "none" /\ attempts' = <<>> /\ UNCHANGED <<now, scrolls>>
    /\ batch_left' = 0
    /\ dropped' = NoCand
    /\ UNCHANGED <<params, writers, tabv, shown, sinkv, ti, collected, seen, new_in_batch, reply, record,
                   detailed_comments, rounds>>

\* _run after the loop: _write_csv(search_term, engine, results), ctx.close(), return
WsFinish ==
    /\ plugin = "webscrape" /\ pc = "ws_close"
    /\ WriteCsv(collected)
    /\ returned' = Len(collected)
    /\ pc' = "done"
    /\ UNCHANGED <<params, writers, tabv, shown, now, ti, collected, seen, fail_rounds, scrolls, batch_left,
                   new_in_batch, reply, record, detailed_comments, dropped, advanced, attempts, rounds>>

----------------------------------------------------------------------------
(* fb-scrape *)

FAIL_LIMIT_FB == 5
MAX_SCROLLS_FB == 20
MIN_TEXT_FB == 10

\* _run up to the collection loop: page.goto(facebook.com), _login_if_needed,
\* page.goto(url), asyncio.sleep(3)
FbGoto ==
    /\ plugin = "fb" /\ pc = "fb_goto"
    /\ \E nav \in NavOutcomes :
         IF nav = "raise"
         THEN pc' = "PlaywrightError" /\ now' = now /\ primary_page' = primary_page
         ELSE pc' = "fb_while" /\ now' \in Elapse /\ primary_page' = "results"
    /\ UNCHANGED <<params, writers, tabs, detail, shown, sinkv, ti, collected, seen, fail_rounds, scrolls, batch_left,
                   new_in_batch, reply, record, detailed_comments, dropped, advanced, attempts, rounds>>

\* The `while` condition of a round
FbWhileCond ==
    /\ Len(collected) < want
    /\ fail_rounds < FAIL_LIMIT_FB
    /\ scrolls < MAX_SCROLLS_FB

\* _analyze_page_with_vision: the length of the list it returns, [] on any failure
AnalyzePageWithVision(r) == IF r.kind = "array" THEN r.n ELSE 0

\* Top of the while loop: the screenshot and the Oracle call of one round
FbRound ==
    /\ plugin = "fb" /\ pc = "fb_while"
    /\ IF ~FbWhileCond
       THEN /\ pc' = "fb_close"
            /\ UNCHANGED <<now, batch_left, new_in_batch, reply, rounds>>
       ELSE \E nav \in NavOutcomes :
              IF nav = "raise"
              THEN /\ pc' = "PlaywrightError"
                   /\ UNCHANGED <<now, batch_left, new_in_batch, reply, rounds>>
              ELSE \E r \in OracleReplies :
                     /\ reply' = r.kind
                     /\ batch_left' = AnalyzePageWithVision(r)
                     /\ new_in_batch' = 0
                     /\ rounds' = rounds + 1
                     /\ now' \in Elapse
                     /\ pc' = "fb_item"
    /\ UNCHANGED <<params, writers, tabv, shown, sinkv, ti, collected, seen, fail_rounds, scrolls, record,
                   detailed_comments, dropped, advanced, attempts>>

\* post_data.get('post_id', f'post_{len(collected)}')
PostId(post) == Get(post.post_id, "post_" \o ToString(Len(collected)))

\* The content filter of fb-scrape: hashtag-only and media-only posts ...
FbSkipsKind(post) ==
    \/ IsTrue(Get(post.is_hashtag_only, "false"))
    \/ ~IsTrue(Get(post.has_text_content, "false"))

\* (mutant) the length taken of the text as the Oracle gave it
FbSkipsTextUnstripped(post) == Len(Get(post.post_text, "")) < MIN_TEXT_FB

\* ... and posts of fewer than 10 characters
FbSkipsText(post) == Len(Strip(Get(post.post_text, ""))) < MIN_TEXT_FB

\* What the work on one post's page element can come to: the element is not
\* found (detailed_comments is not assigned), a call in the try block raises
\* (detailed_comments = []), or _analyze_post_comments returns 0 or 1 entries.
\* The posts of a stream or stall source have no comments.
PostWork ==
    IF source = "any"
    THEN {"not_found", "error", "found_0", "found_1"}
    ELSE {"not_found", "error", "found_0"}

\* detailed_comments after the work on a post: whose comments it holds (of) and
\* how many (n)
DetailedAfter(work, post_id) ==
    CASE work = "not_found" -> detailed_comments
      [] work = "found_1" -> [bound |-> TRUE, of |-> post_id, n |-> 1]
      [] OTHER -> [bound |-> TRUE, of |-> "", n |-> 0]

\* The exception the comment handling of one post raises, "none" when it
\* raises none: detailed_comments read before any assignment; None[:5] on a
\* null top_comments; .strip() on a comment's null text
FbCommentsError(post, detailed) ==
    CASE ~detailed.bound -> "UnboundLocalError"
      [] detailed.n = 0 /\ post.top_comments = NULL -> "TypeError"
      [] detailed.n = 0 /\ post.top_comments = "bad" -> "AttributeError"
      [] OTHER -> "none"

\* The row of an accepted post: its identity, its text, and the post whose
\* comments fill its comment cells ("" when they are empty)
FbRow(post, post_id, detailed) ==
    [post_id |-> post_id,
     post_text |-> Strip(post.post_text),
     comments_of |-> IF detailed.n > 0 THEN detailed.of
                     ELSE IF post.top_comments = "own" THEN post_id ELSE ""]

\* (mutant) the seen_ids test left out
FbSeenNever(post_id) == FALSE

\* `if post_id in seen_ids: continue`
FbSeen(post_id) == post_id \in seen

\* The body of `for post_data in posts_data:` for the candidate `post`
FbCandidate(post) ==
    /\ shown' = ShownAfter(post)
    /\ IF post.shape # "dict"
       THEN \* post_data.get raises AttributeError
            /\ pc' = "AttributeError"
            /\ UNCHANGED <<now, collected, seen, batch_left, new_in_batch, detailed_comments>>
       ELSE LET post_id == PostId(post) IN
       IF FbSeen(post_id)
       THEN /\ pc' = "fb_item"
            /\ batch_left' = batch_left - 1
            /\ UNCHANGED <<now, collected, seen, new_in_batch, detailed_comments>>
       ELSE
       /\ seen' = seen \cup {post_id}
       /\ IF FbSkipsKind(post)
          THEN /\ pc' = "fb_item"
               /\ batch_left' = batch_left - 1
               /\ UNCHANGED <<now, collected, new_in_batch, detailed_comments>>
          ELSE IF post.post_text = NULL
          THEN \* None.strip() raises AttributeError
               /\ pc' = "AttributeError"
               /\ UNCHANGED <<now, collected, batch_left, new_in_batch, detailed_comments>>
          ELSE IF FbSkipsText(post)
          THEN /\ pc' = "fb_item"
               /\ batch_left' = batch_left - 1
               /\ UNCHANGED <<now, collected, new_in_batch, detailed_comments>>
          ELSE \E work \in PostWork :
               LET detailed == DetailedAfter(work, post_id) IN
               /\ now' \in Elapse
               /\ detailed_comments' = detailed
               /\ IF FbCommentsError(post, detailed) # "none"
                  THEN /\ pc' = FbCommentsError(post, detailed)
                       /\ UNCHANGED <<collected, batch_left, new_in_batch>>
                  ELSE /\ collected' = Accepted(FbRow(post, post_id, detailed))
                       /\ new_in_batch' = new_in_batch + 1
                       /\ IF BreakAtTarget(Len(collected) + 1)
                          THEN pc' = "fb_advance" /\ batch_left' = batch_left
                          ELSE pc' = "fb_item" /\ batch_left' = batch_left - 1

\* One iteration of `for post_data in posts_data:`
FbItem ==
    /\ plugin = "fb" /\ pc = "fb_item"
    /\ IF batch_left = 0
       THEN /\ pc' = "fb_advance"
            /\ UNCHANGED <<shown, now, collected, seen, batch_left, new_in_batch,
                           detailed_comments>>
       ELSE \E post \in BatchItems : FbCandidate(post)
    /\ UNCHANGED <<params, writers, tabv, sinkv, ti, fail_rounds, scrolls, reply, record, dropped,
                   advanced, attempts, rounds>>

\* `if new_count == 0: fail_rounds += 1 else: fail_rounds = 0`
FbFailRounds == IF new_in_batch = 0 THEN fail_rounds + 1 ELSE 0

\* The guard of the scroll at the end of a round
FbScrollGuard == Len(collected) < want /\ scrolls < MAX_SCROLLS_FB

\* After the posts of a round: the fail_rounds update and the scroll
FbAdvance ==
    /\ plugin = "fb" /\ pc = "fb_advance"
    /\ fail_rounds' = FbFailRounds
    /\ IF FbScrollGuard
       THEN \E nav \in NavOutcomes :
              IF nav = "raise"
              THEN pc' = "PlaywrightError" /\ UNCHANGED <<now, scrolls, advanced, attempts>>
              ELSE /\ pc' = "fb_while"
                   /\ scrolls' = NextScrolls
                   /\ advanced' = "scroll"
                   /\ attempts' = <<"scroll">>
                   /\ now' \in Elapse
       ELSE pc' = "fb_while" /\ advanced' = "none" /\ attempts' = <<>> /\ UNCHANGED <<now, scrolls>>
    /\ batch_left' = 0
    /\ UNCHANGED <<params, writers, tabv, shown, sinkv, ti, collected, seen, new_in_batch, reply, record,
                   detailed_comments, dropped, rounds>>

\* _run after the loop: _write_csv(tag, rows), ctx.close(), return
FbFinish ==
    /\ plugin = "fb" /\ pc = "fb_close"
    /\ WriteCsv(collected)
    /\ returned' = Len(collected)
    /\ pc' = "done"
    /\ UNCHANGED <<params, writers, tabv, shown, now, ti, collected, seen, fail_rounds, scrolls, batch_left,
                   new_in_batch, reply, record, detailed_comments, dropped, advanced, attempts, rounds>>

----------------------------------------------------------------------------

InitRun ==
    /\ collected = <<>>
    /\ seen = {}
    /\ fail_rounds = 0
    /\ scrolls = 0
    /\ rounds = 0
    /\ batch_left = 0
    /\ new_in_batch = 0
    /\ reply = "none"
    /\ record = NoRecord
    /\ detailed_comments = Unbound
    /\ dropped = NoCand
    /\ advanced = "none"
    /\ attempts = <<>>
    /\ tabs = 0
    /\ primary_page = "about:blank"
    /\ detail = "none"
    /\ csv = <<>>
    /\ csv_exists = FALSE
    /\ returned = -1
    /\ now = 0
    /\ writers = <<>>
    /\ ti = 1
    /\ shown = 0

----------------------------------------------------------------------------
(* The command handlers *)

StartPc == [deepscrape |-> "ds_target", webscrape |-> "ws_goto", fb |-> "fb_goto"]

\* str.lower() on the engine names of the model
Lower(s) == IF s = "Google" THEN "google" ELSE s

\* webscrape_command: valid_engines
ValidEngines == {"duckduckgo", "google", "bing"}

\* deepscrape_command, --depth=: `d = int(...)`, `if d in (0, 1, 2, 3): depth = d`,
\* any failure passed over; depth stays 0 otherwise
ParseDepth(text) ==
    CASE text = "0" -> 0
      [] text = "1" -> 1
      [] text = "2" -> 2
      [] text = "3" -> 3
      [] OTHER -> 0

\* The checks after which a handler prints an error and returns: webscrape's
\* engine validation, and `if not os.getenv('OPENAI_API_KEY')` in all three
CommandRefuses ==
    \/ plugin = "webscrape" /\ Lower(args.location) \notin ValidEngines
    \/ ~args.key

\* A handler from its call to asyncio.run(_run(...))
CommandStart ==
    /\ pc = "command"
    /\ pc' = IF CommandRefuses THEN "refused" ELSE StartPc[plugin]
    /\ UNCHANGED <<params, writers, tabv, shown, sinkv, now, ti, collected, seen, fail_rounds, scrolls,
                   batch_left, new_in_batch, reply, record, detailed_comments, dropped, advanced, attempts, rounds>>

\* (mutant) a handler whose except clause names the browser's error only
HandlerCatchesPlaywrightOnly(exc) == exc = "PlaywrightError"

\* `except Exception as e:` around asyncio.run(_run(...)): every exception of
\* the model is a subclass of Exception
HandlerCatches(exc) == exc \in Exceptions

\* The end of a handler: it prints the result, or prints the exception it
\* caught, and returns to execute_command; an exception it does not catch is
\* caught there (`except Exception`, return False)
CommandReturn ==
    /\ pc \in Exceptions \cup {"done"}
    /\ pc' = IF pc = "done" THEN "prompt_ok"
             ELSE IF HandlerCatches(pc) THEN "prompt_error"
             ELSE "prompt_unknown_command"
    /\ UNCHANGED <<params, writers, tabv, shown, sinkv, now, ti, collected, seen, fail_rounds, scrolls,
                   batch_left, new_in_batch, reply, record, detailed_comments, dropped, advanced, attempts, rounds>>

----------------------------------------------------------------------------

\* A command line that passes every check of its handler
ValidArgs == [key : {TRUE}, depth : {ToString(d) : d \in Depths}, location : {"duckduckgo"}]

\* Command lines with and without the credential, with depth texts in and out
\* of range, with supported and unsupported engine names
AnyArgs ==
    [key : BOOLEAN, depth : {"0", "1", "3", "7", "x"},
     location : {"duckduckgo", "Google", "yahoo"}]

\* Only deepscrape takes --depth, only webscrape takes --location
ArgsOf(p, argsets) ==
    { a \in argsets : /\ p # "deepscrape" => a.depth = "0"
                      /\ p # "webscrape" => a.location = "duckduckgo" }

\* The command line and the plan of a run
InitInputs(wants, argsets) ==
    /\ InitRun
    /\ plugin \in {"deepscrape", "webscrape", "fb"}
    /\ args \in ArgsOf(plugin, argsets)
    /\ want \in wants
    /\ depth = ParseDepth(args.depth)
    /\ \E timeout_s \in 0..MaxTimeout : deadline = now + Max(1, timeout_s)
    /\ targets \in IF plugin = "deepscrape" THEN Plans ELSE { <<>> }
    /\ pc = "command"

\* Any source: the Oracle may answer anything in every round
Init == source = "any" /\ InitInputs(1..MaxWant, ValidArgs)

\* A source that shows exactly one new valid record in every round
InitStream == source = "stream" /\ InitInputs(1..MaxStreamWant, ValidArgs)

\* A source that shows StallRecords valid records and then nothing new, asked
\* for more records than it has
InitStall ==
    source = "stall" /\ InitInputs((StallRecords + 1)..(StallRecords + MaxWant), ValidArgs)

\* fb-scrape on a page whose posts carry no post_id
InitIdless == source = "idless" /\ InitInputs(1..MaxWant, ValidArgs) /\ plugin = "fb"

\* deepscrape with enrichment, asking for one record, on pages of which the
\* depth Oracle may reply anything
InitReplies ==
    /\ source = "replies"
    /\ InitInputs({1}, ValidArgs)
    /\ plugin = "deepscrape"
    /\ depth > 0

\* Any command line, asking for one record of any source
InitCommand == source = "any" /\ InitInputs({1}, AnyArgs)

Next ==
    \/ CommandStart
    \/ CommandReturn
    \/ DsNextTarget
    \/ DsRound
    \/ DsItem
    \/ DsEnrich
    \/ DsDepthCall
    \/ DsAdvance
    \/ DsFinish
    \/ WsGoto
    \/ WsRound
    \/ WsItem
    \/ WsAdvance
    \/ WsFinish
    \/ FbGoto
    \/ FbRound
    \/ FbItem
    \/ FbAdvance
    \/ FbFinish

\* The sink on its own: _write_csv called again and again on one path, as by
\* one run after another of the same command
\* Records the loops hand to _write_csv
SinkRecords ==
    CASE plugin = "deepscrape" ->
            LET base == { BaseRecord(item) :
                            item \in { it \in Items : /\ it.shape = "dict"
                                                      /\ it.title # NULL
                                                      /\ ~DsSkips(it) } }
            IN base \cup { Update(b, AnalyzePageDepth(b.url, 1, out)) :
                             b \in base, out \in DepthOutcomes }
      [] plugin = "webscrape" ->
            { WsRecord(Get(it.url, ""), Strip(Get(it.title, ""))) :
                it \in { it \in Items : /\ it.shape = "dict"
                                        /\ it.title # NULL
                                        /\ Truthy(Strip(Get(it.title, ""))) } }
      [] OTHER ->
            { FbRow(post, Get(post.post_id, "post_0"), [bound |-> TRUE, of |-> "", n |-> 0]) :
                post \in { q \in Posts : /\ q.shape = "dict"
                                         /\ q.post_text # NULL
                                         /\ ~FbSkipsKind(q)
                                         /\ ~FbSkipsText(q)
                                         /\ q.top_comments \in {"own", MISSING} } }

InitSink ==
    /\ InitRun
    /\ source = "any"
    /\ plugin \in {"deepscrape", "webscrape", "fb"}
    /\ args = [key |-> TRUE, depth |-> "0", location |-> "duckduckgo"]
    /\ want = 1
    /\ depth = ParseDepth(args.depth)
    /\ deadline = now + 1
    /\ targets = <<>>
    /\ pc = "sink"

\* One call _write_csv(..., rs): `collected` holds the records handed over
SinkAppend ==
    /\ pc = "sink"
    /\ \E n \in 0..MaxSinkBatch : \E rs \in [1..n -> SinkRecords] :
         /\ Len(csv) + n <= MaxFileRows + 1
         /\ collected' = rs
         /\ WriteCsv(rs)
         /\ returned' = n
    /\ UNCHANGED <<params, writers, tabv, shown, now, ti, pc, seen, fail_rounds, scrolls, batch_left,
                   new_in_batch, reply, record, detailed_comments, dropped, advanced, attempts, rounds>>

NextSink == SinkAppend

\* The composite cells on their own.  A text is a sequence of tokens: a word,
\* a blank, the delimiter of fb-scrape, or one of the characters JSON gives a
\* meaning to.
BL == " "
SEP == " ||| "
QUOTE == "\""
BACKSLASH == "\\"
COMMA == ", "

\* sep.join(list)
RECURSIVE Join(_, _)
Join(list, sep) ==
    IF list = <<>> THEN <<>>
    ELSE IF Len(list) = 1 THEN list[1]
    ELSE list[1] \o sep \o Join(Tail(list), sep)

\* str.strip() on a text of tokens
RECURSIVE StripText(_)
StripText(t) ==
    IF t = <<>> THEN t
    ELSE IF t[1] = BL THEN StripText(Tail(t))
    ELSE IF t[Len(t)] = BL THEN StripText(SubSeq(t, 1, Len(t) - 1))
    ELSE t

\* list[:5]
TOP_COMMENTS == 5
FirstFive(list) == SubSeq(list, 1, IF Len(list) < TOP_COMMENTS THEN Len(list) ELSE TOP_COMMENTS)

\* One comment of top_comments with its text stripped
Stripped(comment) == [comment EXCEPT !.text = StripText(comment.text)]

\* The comments the loop `for comment in top_comments` keeps (`if text:`), in order
RECURSIVE KeptComments(_)
KeptComments(list) ==
    IF list = <<>> THEN <<>>
    ELSE (IF StripText(list[1].text) # <<>> THEN <<Stripped(list[1])>> ELSE <<>>)
         \o KeptComments(Tail(list))

CommentKeys == <<"text", "author", "likes", "replies", "time">>

\* The five comment cells of row_data: ' ||| '.join of each list
CommentCells(top_comments) ==
    LET kept == KeptComments(FirstFive(top_comments)) IN
    [k \in 1..Len(CommentKeys) |->
        Join([i \in 1..Len(kept) |-> kept[i][CommentKeys[k]]], <<SEP>>)]

\* str.split(sep): the parts of a cell between the delimiters
RECURSIVE Split(_, _)
Split(cell, part) ==
    IF cell = <<>> THEN <<part>>
    ELSE IF cell[1] = SEP THEN <<part>> \o Split(Tail(cell), <<>>)
    ELSE Split(Tail(cell), Append(part, cell[1]))

\* The text of a JSON string: json.dumps escapes the quote and the backslash
RECURSIVE JsonEscape(_)
JsonEscape(t) ==
    IF t = <<>> THEN <<>>
    ELSE (IF t[1] \in {QUOTE, BACKSLASH} THEN <<BACKSLASH, t[1]>> ELSE <<t[1]>>)
         \o JsonEscape(Tail(t))

\* json.dumps(list, ensure_ascii=False) of a list of strings
JsonDumps(list) ==
    <<"[">> \o Join([i \in 1..Len(list) |-> <<QUOTE>> \o JsonEscape(list[i]) \o <<QUOTE>>],
                     <<COMMA>>)
           \o <<"]">>

\* The comments the comment Oracle of fb-scrape can return for a post
FbComments ==
    [text : {<<"x">>, <<BL, "y">>, <<"x", SEP, "y">>, <<>>},
     author : {<<"A">>, <<"B">>}, likes : {<<"5">>}, replies : {<<"0">>},
     time : {<<>>, <<"2h">>}]

\* The comments the depth Oracle of deepscrape can return for a page
DsComments ==
    { <<"x">>, <<"x", QUOTE, COMMA, QUOTE, "x">>, <<BACKSLASH>>, <<BACKSLASH, QUOTE>>,
      <<QUOTE>>, <<>> }

ListsOf(S) == UNION { [1..n -> S] : n \in 0..MaxEntries }

\* The lists of discussion entries a record can carry
EntryLists == IF plugin = "fb" THEN ListsOf(FbComments) ELSE ListsOf(DsComments)

\* What is written for a list of discussion entries: the `comments` cell of
\* deepscrape, the five comment cells of fb-scrape
Cells(entries) ==
    IF plugin = "fb" THEN CommentCells(entries) ELSE <<JsonDumps(entries)>>

\* The entries a reader of the cells is to get back
Entries(entries) == IF plugin = "fb" THEN KeptComments(FirstFive(entries)) ELSE entries

InitCells ==
    /\ InitRun
    /\ source = "any"
    /\ plugin \in {"deepscrape", "fb"}
    /\ args = [key |-> TRUE, depth |-> IF plugin = "fb" THEN "0" ELSE "2", location |-> "duckduckgo"]
    /\ want = 1
    /\ depth = ParseDepth(args.depth)
    /\ deadline = now + 1
    /\ targets = <<>>
    /\ pc = "cells"

\* One record with discussion entries is made ready for the sink: `record`
\* holds the entries, `collected` the record with its cells
CellsWrite ==
    /\ pc = "cells"
    /\ \E entries \in EntryLists :
         /\ record' = [comments |-> entries]
         /\ collected' = <<[comments |-> Cells(entries)]>>
    /\ UNCHANGED <<params, writers, tabv, sinkv, shown, now, ti, pc, seen, fail_rounds, scrolls,
                   batch_left, new_in_batch, reply, detailed_comments, dropped, advanced,
                   attempts, rounds>>

NextCells == CellsWrite

\* Two runs of one command with the same search term: both call _write_csv
\* on the same out_path, which does not exist yet.  A step is one system
\* call or one write into the file object's buffer.
Writers == {1, 2}

\* The records each run hands to _write_csv
RaceResults ==
    IF plugin = "deepscrape"
    THEN { BaseRecord(Dict("u1", "A")), BaseRecord(DictP("u2", "A", "P")) }
    ELSE { WsRecord("u1", "A"), WsRecord("u2", "B") }

InitRace ==
    /\ InitRun
    /\ source = "any"
    /\ plugin \in {"deepscrape", "webscrape"}
    /\ args = [key |-> TRUE, depth |-> "0", location |-> "duckduckgo"]
    /\ want = MaxSinkBatch
    /\ depth = ParseDepth(args.depth)
    /\ deadline = now + 1
    /\ targets = <<>>
    /\ pc = "race"

RaceUnchanged ==
    UNCHANGED <<params, tabv, shown, now, ti, pc, collected, seen, fail_rounds, scrolls,
                batch_left, new_in_batch, reply, record, detailed_comments, dropped,
                advanced, attempts, rounds, returned>>

\* Both runs reach _write_csv(term, results)
RaceStart ==
    /\ pc = "race" /\ writers = <<>>
    /\ \E n1, n2 \in 1..MaxSinkBatch :
         \E rs1 \in [1..n1 -> RaceResults], rs2 \in [1..n2 -> RaceResults] :
            writers' = [w \in Writers |->
                          [at |-> "exists", new_file |-> FALSE, buf |-> <<>>,
                           results |-> IF w = 1 THEN rs1 ELSE rs2, written |-> 0]]
    /\ UNCHANGED <<csv, csv_exists>>
    /\ RaceUnchanged

\* new_file = not os.path.exists(out_path)
RaceExists(w) ==
    /\ pc = "race" /\ writers # <<>> /\ writers[w].at = "exists"
    /\ writers' = [writers EXCEPT ![w].new_file = ~csv_exists, ![w].at = "open"]
    /\ UNCHANGED <<csv, csv_exists>>
    /\ RaceUnchanged

\* open(out_path, 'a', ...): creates the file when it is not there
RaceOpen(w) ==
    /\ pc = "race" /\ writers # <<>> /\ writers[w].at = "open"
    /\ writers' = [writers EXCEPT ![w].at = "header"]
    /\ csv_exists' = TRUE
    /\ UNCHANGED csv
    /\ RaceUnchanged

\* if new_file: w.writeheader()
RaceHeader(w) ==
    /\ pc = "race" /\ writers # <<>> /\ writers[w].at = "header"
    /\ writers' = [writers EXCEPT
                     ![w].buf = IF writers[w].new_file THEN <<HeaderRow>> ELSE <<>>,
                     ![w].at = "rows"]
    /\ UNCHANGED <<csv, csv_exists>>
    /\ RaceUnchanged

\* w.writerow({...}) for the next record of results
RaceRow(w) ==
    /\ pc = "race" /\ writers # <<>> /\ writers[w].at = "rows"
    /\ writers[w].written < Len(writers[w].results)
    /\ writers' = [writers EXCEPT
                     ![w].buf = Append(@, Row(writers[w].results[writers[w].written + 1])),
                     ![w].written = @ + 1]
    /\ UNCHANGED <<csv, csv_exists>>
    /\ RaceUnchanged

\* The buffer of the file object is written out before the file is closed;
\* in append mode the bytes go to the end of the file
RaceFlush(w) ==
    /\ pc = "race" /\ writers # <<>> /\ writers[w].at = "rows"
    /\ writers[w].buf # <<>>
    /\ csv' = csv \o writers[w].buf
    /\ writers' = [writers EXCEPT ![w].buf = <<>>]
    /\ UNCHANGED csv_exists
    /\ RaceUnchanged

\* The end of the `with` block: the buffer is written out and the file closed
RaceClose(w) ==
    /\ pc = "race" /\ writers # <<>> /\ writers[w].at = "rows"
    /\ writers[w].written = Len(writers[w].results)
    /\ csv' = csv \o writers[w].buf
    /\ writers' = [writers EXCEPT ![w].buf = <<>>, ![w].at = "closed"]
    /\ UNCHANGED csv_exists
    /\ RaceUnchanged

NextRace ==
    \/ RaceStart
    \/ \E w \in Writers :
         \/ RaceExists(w)
         \/ RaceOpen(w)
         \/ RaceHeader(w)
         \/ RaceRow(w)
         \/ RaceFlush(w)
         \/ RaceClose(w)

\* deepscrape alone
NextDs ==
    \/ CommandStart
    \/ CommandReturn
    \/ DsNextTarget
    \/ DsRound
    \/ DsItem
    \/ DsEnrich
    \/ DsDepthCall
    \/ DsAdvance
    \/ DsFinish

\* fb-scrape alone
NextFb ==
    \/ CommandStart
    \/ CommandReturn
    \/ FbGoto
    \/ FbRound
    \/ FbItem
    \/ FbAdvance
    \/ FbFinish

Spec == Init /\ [][Next]_vars
SpecSink == InitSink /\ [][NextSink]_vars
SpecStream == InitStream /\ [][Next]_vars
\* Every awaited call returns: a step that can be taken is taken
SpecStreamFair == InitStream /\ [][Next]_vars /\ WF_vars(Next)
SpecStall == InitStall /\ [][Next]_vars
SpecCommand == InitCommand /\ [][Next]_vars
SpecIdless == InitIdless /\ [][NextFb]_vars
SpecCells == InitCells /\ [][NextCells]_vars
SpecRace == InitRace /\ [][NextRace]_vars
SpecReplies == InitReplies /\ [][NextDs]_vars

----------------------------------------------------------------------------
(* Properties *)

\* The deduplication key of a record
Identity(rec) == IF plugin = "fb" THEN rec.post_id ELSE rec.url

Identities == { Identity(collected[i]) : i \in DOMAIN collected }

NoTwoShareIdentity ==
    \A i, j \in DOMAIN collected : i # j => Identity(collected[i]) # Identity(collected[j])

FailLimit ==
    CASE plugin = "deepscrape" -> FAIL_LIMIT_DS
      [] plugin = "webscrape" -> FAIL_LIMIT_WS
      [] OTHER -> FAIL_LIMIT_FB

ScrollCap ==
    CASE plugin = "deepscrape" -> MAX_SCROLLS_DS
      [] plugin = "webscrape" -> MAX_SCROLLS_WS
      [] OTHER -> MAX_SCROLLS_FB

WhilePcs == {"ds_while", "ws_while", "fb_while"}
ItemPcs == {"ds_item", "ws_item", "fb_item"}
AdvancePcs == {"ds_advance", "ws_advance", "fb_advance"}
\* deepscrape is inside _analyze_page_depth, the detail tab open
EnrichPcs == {"ds_enrich", "ds_settled"}

\* The file holds the header and then exactly the collected records
SinkHoldsCollected == csv_exists /\ csv = <<HeaderRow>> \o Rows(collected)

\* C1: in deepscrape no two records of the returned `collected` list have the
\* same url, whatever batches the Oracle returned.
C1_DeepscrapeReturnsDistinctUrls ==
    (plugin = "deepscrape" /\ pc = "done") => NoTwoShareIdentity

\* C2: in webscrape and fb-scrape, in every reachable state, no two records of
\* `collected` share an identity and every identity of a collected record is in
\* the seen-set.
C2_CollectedDistinctAndSeen ==
    plugin \in {"webscrape", "fb"} => (NoTwoShareIdentity /\ Identities \subseteq seen)

C2_Witness ==
    /\ plugin \in {"webscrape", "fb"}
    /\ pc = "done"
    /\ Len(collected) = 2
    /\ Cardinality(seen) >= 2

\* A run over a stream source that returned, ran at least one round and, in
\* deepscrape, was not cut short by its deadline
StreamRunReturned ==
    /\ source = "stream"
    /\ pc = "done"
    /\ reply # "none"
    /\ plugin = "deepscrape" => now < deadline

TargetReached ==
    /\ Len(collected) = want
    /\ returned = want
    /\ fail_rounds < FailLimit
    /\ scrolls < ScrollCap

RoundsAvailable ==
    IF plugin = "deepscrape" THEN MAX_SCROLLS_DS * Len(targets) ELSE ScrollCap

C4_StallReturnsTheThree ==
    ( /\ source = "stall"
      /\ pc = "done"
      /\ shown = StallRecords
      /\ plugin = "deepscrape" => (now < deadline /\ Len(targets) = 1) )
    => ( /\ Len(collected) = StallRecords
         /\ returned = StallRecords
         /\ fail_rounds = FailLimit )

\* C5: in deepscrape, from a state in which a deadline check reads
\* now >= deadline, no step starts a search-results Oracle call, an enrichment,
\* a navigation or a scroll, none changes `collected`, and the step that
\* returns writes exactly `collected` to the sink.
C5_NoWorkAfterDeadline ==
    [][ ( /\ plugin = "deepscrape"
          /\ now >= deadline
          /\ pc \in {"ds_target", "ds_while", "ds_item", "ds_advance", "ds_close"} )
        => ( /\ collected' = collected
             /\ scrolls' = scrolls
             /\ pc' \notin Exceptions \cup {"ds_enrich"}
             /\ ~(pc = "ds_while" /\ pc' = "ds_item")
             /\ ~(pc = "ds_target" /\ pc' = "ds_while")
             /\ pc' = "done" => (SinkHoldsCollected' /\ returned' = Len(collected)) )
      ]_vars

C5_Witness ==
    /\ plugin = "deepscrape"
    /\ pc = "done"
    /\ now >= deadline
    /\ Len(collected) >= 1
    /\ Len(collected) < want
    /\ fail_rounds < FAIL_LIMIT_DS
    /\ SinkHoldsCollected

\* C6: in deepscrape and webscrape a candidate whose url is missing or empty is
\* never appended to `collected`.
C6_NoRecordWithoutUrl ==
    plugin \in {"deepscrape", "webscrape"} =>
        \A i \in DOMAIN collected : Truthy(collected[i].url)

\* C7: whenever a run returns, the deadline has passed (deepscrape), or the
\* target is reached, or the empty-round counter is at its limit, or the scroll
\* counter is at its cap.
C7_ReturnHasReason ==
    pc = "done" =>
        \/ plugin = "deepscrape" /\ now >= deadline
        \/ Len(collected) = want
        \/ fail_rounds = FailLimit
        \/ scrolls = ScrollCap

\* C8: in a round whose Oracle call raised or whose reply held no parseable
\* array, the items loop has nothing to look at and accepts nothing, and the
\* end of the round adds one to fail_rounds, leaves `collected` and the seen-set
\* as they were, and goes on to the next `while` test (unless the scroll itself
\* fails).
C8_FailedReplyIsEmptyRound ==
    [][ /\ (reply \in FailedKinds /\ pc \in ItemPcs)
           => (pc' \in AdvancePcs /\ new_in_batch' = 0 /\ UNCHANGED <<collected, seen>>)
        /\ (reply \in FailedKinds /\ pc \in AdvancePcs)
           => ( /\ fail_rounds' = fail_rounds + 1
                /\ UNCHANGED <<collected, seen>>
                /\ pc' \in WhilePcs \cup {"PlaywrightError"} )
      ]_vars

C8_Witness ==
    /\ reply \in FailedKinds
    /\ pc \in WhilePcs
    /\ fail_rounds = 1
    /\ Len(collected) = 1

\* C9: a batch with an element that is not an object, or with a null title,
\* post_text or comment text, never ends the run with an exception.
C9_MalformedBatchRaisesNothing == pc \notin {"AttributeError", "TypeError"}

\* C10: when a Navigator call raises after at least one record was accepted,
\* the accepted records are returned and appended to the sink.
C10_NavigatorFailureKeepsRecords ==
    (pc = "PlaywrightError" /\ Len(collected) >= 1)
    => (SinkHoldsCollected /\ returned = Len(collected))

\* C11: whichever exception ends a run (an Oracle, Navigator or enrichment
\* failure, or what a reply's content raises), the command handler catches it,
\* prints it and returns normally: execute_command sees no exception and the
\* shell goes on to its next prompt.
C11_HandlerReturnsNormally ==
    [][ (pc \in Exceptions) => (pc' = "prompt_error") ]_vars

C11_Witness ==
    /\ pc = "prompt_error"
    /\ Len(collected) >= 1
    /\ ~csv_exists

\* C12: in deepscrape at depth >= 1, when the enrichment of a candidate fails
\* (the detail navigation or the screenshot raises, the depth Oracle raises, or
\* its text cannot be parsed), the step appends the candidate's record exactly
\* as it was built from the search result, counts it as new in the round, and
\* stays in the loop.
C12_FailedEnrichmentKeepsCandidate ==
    [][ (pc \in EnrichPcs /\ pc' \notin EnrichPcs /\ detail' = "failed")
        => ( /\ collected' = Append(collected, record)
             /\ new_in_batch' = new_in_batch + 1
             /\ pc' \in {"ds_item", "ds_advance"} )
      ]_vars

C12_Witness ==
    /\ plugin = "deepscrape"
    /\ depth >= 1
    /\ detail = "failed"
    /\ pc = "done"
    /\ collected = << BaseRecord(DictP("u2", "A", "P")) >>

\* The search results the acceptance filter of deepscrape lets through
AcceptableItems == { item \in Items : item.shape = "dict" /\ item.title # NULL /\ ~DsSkips(item) }

\* C13: in deepscrape at depth 0 no secondary tab is ever open, no depth Oracle
\* call is made, and every accepted record is the base record of a search
\* result: its url, its stripped title and the copied fields, nothing else.
C13_DepthZeroNoEnrichment ==
    (plugin = "deepscrape" /\ depth = 0) =>
        /\ tabs = 0
        /\ pc \notin EnrichPcs
        /\ detail = "none"
        /\ \A i \in DOMAIN collected :
              /\ Fields(collected[i]) = {"url", "title", "publisher"}
              /\ \E item \in AcceptableItems : collected[i] = BaseRecord(item)

C13_Witness ==
    /\ plugin = "deepscrape"
    /\ depth = 0
    /\ pc = "done"
    /\ Len(collected) = 2
    /\ collected[2] = BaseRecord(DictP("u2", "A", "P"))

\* C14: in deepscrape at most one secondary tab is open at any time, a tab is
\* open only while its record is being enriched (it is closed before the next
\* candidate is looked at and before the run returns, also after a failed
\* enrichment), and the primary page shows nothing but the search results it
\* was sent to.
C14_SecondaryTabsClosed ==
    /\ tabs \in {0, 1}
    /\ tabs = 1 => pc \in EnrichPcs
    /\ primary_page \in {"about:blank", "results"}

C14_Witness ==
    /\ plugin = "deepscrape"
    /\ pc = "ds_item"
    /\ batch_left >= 1
    /\ detail = "failed"
    /\ Len(collected) >= 1
    /\ tabs = 0

\* The record deepscrape makes of a candidate's base record at depth d when the
\* depth Oracle call ends as `out`
Enriched(rec, d, out) ==
    IF d > 0 THEN Update(rec, AnalyzePageDepth(rec.url, d, out)) ELSE rec

\* C15: for every candidate under enrichment and every way the depth Oracle
\* call can end, the fields of the record made at depth k include the fields
\* of the record made at depth k - 1, for k = 1, 2, 3.
C15_DepthMonotone ==
    pc = "ds_enrich" =>
        \A out \in AllDepthOutcomes : \A k \in 1..3 :
            Fields(Enriched(record, k - 1, out)) \subseteq Fields(Enriched(record, k, out))

C15_Witness ==
    /\ pc = "ds_enrich"
    /\ record.publisher = "P"
    /\ \E out \in AllDepthOutcomes :
          Fields(Enriched(record, 0, out)) # Fields(Enriched(record, 1, out))

IsPrefix(a, b) == Len(a) <= Len(b) /\ SubSeq(b, 1, Len(a)) = a

OneHeaderFirst(file) ==
    /\ file # <<>>
    /\ file[1] = HeaderRow
    /\ \A i \in 2..Len(file) : file[i] # HeaderRow

\* C16: every _write_csv call on a path leaves the rows the file had as an
\* unchanged prefix of the file, and the file it leaves has exactly one header
\* row, as its first row.
C16_AppendKeepsPrefixAndOneHeader ==
    [][ /\ csv_exists => IsPrefix(csv, csv')
        /\ csv_exists' => OneHeaderFirst(csv')
      ]_vars

C16_Witness ==
    /\ pc = "sink"
    /\ csv_exists
    /\ Len(csv) > 1 + MaxSinkBatch
    /\ Len(collected) >= 1

\* The column of the identity in the header row
IdColumn ==
    CHOOSE i \in 1..Len(HeaderRow) : HeaderRow[i] = (IF plugin = "fb" THEN "post_id" ELSE "url")

\* C17: after _write_csv appended the N records of `collected`, the last N
\* rows of the file have a cell for each column of the header, and their
\* identity cells read back as the identities of the records, in order.
C17_SinkRoundTrip ==
    returned >= 0 =>
        LET n == Len(collected)
            base == Len(csv) - n
        IN /\ base >= 1
           /\ \A i \in 1..n :
                 /\ Len(csv[base + i]) = Len(HeaderRow)
                 /\ csv[base + i][IdColumn] = Identity(collected[i])

\* C19: in the three collectors, a round (snapshot and Oracle call) is started
\* only while now < deadline.
C19_RoundsOnlyBeforeDeadline ==
    [][ (pc \in WhilePcs /\ pc' \in ItemPcs) => (now < deadline) ]_vars

\* C20: in every collector and every reachable state, the collected list is
\* no longer than the target, also when a batch holds more candidates than
\* are still needed.
C20_NeverMoreThanTarget == Len(collected) <= want

C20_Witness ==
    /\ pc \in {"ds_advance", "ws_advance", "fb_advance"}
    /\ Len(collected) = want
    /\ new_in_batch >= 1
    /\ batch_left >= 2

\* C21: in every collector, once len(collected) has reached the target, no
\* step makes an Oracle extraction call, an enrichment call or a view advance
\* (click or scroll), and deepscrape goes to no further engine.
C21_NothingAfterTarget ==
    [][ (Len(collected) >= want) =>
            /\ ~(pc \in WhilePcs /\ pc' \in ItemPcs)
            /\ reply' = reply
            /\ pc' \notin EnrichPcs /\ tabs' = tabs /\ detail' = detail
            /\ detailed_comments' = detailed_comments
            /\ scrolls' = scrolls /\ advanced' \in {advanced, "none"}
            /\ ti' = ti /\ primary_page' = primary_page
      ]_vars

\* The target was reached in a round after an advance, and the run returned
C21_Witness ==
    /\ pc = "done"
    /\ returned = want
    /\ scrolls >= 1
    /\ advanced = "none"
    /\ new_in_batch >= 1

\* The identity the loops of webscrape and fb-scrape derive from a candidate
CandIdentity(c) == IF plugin = "fb" THEN PostId(c) ELSE Get(c.url, "")

\* The body of the for loop of webscrape and of fb-scrape for the candidate c
LooksAt(c) == IF plugin = "fb" THEN FbCandidate(c) ELSE WsCandidate(c)

\* The for loop of webscrape or fb-scrape has a candidate to look at
InForLoop == pc \in {"ws_item", "fb_item"} /\ batch_left > 0

\* C22: in webscrape and fb-scrape, a step that looks at a candidate whose
\* identity is that of an accepted record leaves `collected` unchanged,
\* whatever the candidate's other fields are.
C22_FirstSeenWins ==
    [][ \A c \in BatchItems :
            (/\ InForLoop
             /\ c.shape = "dict"
             /\ CandIdentity(c) \in Identities
             /\ LooksAt(c))
            => collected' = collected
      ]_vars

\* webscrape has just skipped a result with the url of an accepted record and
\* another title
C22_Witness ==
    /\ plugin = "webscrape"
    /\ dropped.shape = "dict"
    /\ \E i \in DOMAIN collected :
         /\ collected[i].url = Get(dropped.url, "")
         /\ collected[i].title # Strip(Get(dropped.title, ""))

\* C23: in every collector, the end of a round sets the empty-round counter
\* to its value plus one if the round accepted nothing and to zero if it
\* accepted a record, and no other step of a loop changes it; the counter
\* never exceeds its limit (3, 3, 5), and no round starts when it is at the limit.
C23_EmptyRoundCounter ==
    [][ /\ (pc \in AdvancePcs) =>
              (fail_rounds' = IF new_in_batch = 0 THEN fail_rounds + 1 ELSE 0)
        /\ (pc \notin AdvancePcs /\ pc # "ds_target") => (fail_rounds' = fail_rounds)
        /\ fail_rounds' <= FailLimit
        /\ (pc \in WhilePcs /\ pc' \in ItemPcs \cup {"PlaywrightError"}) =>
              (fail_rounds < FailLimit)
      ]_vars

\* An empty round, then a round that accepted a record and reset the counter,
\* then empty rounds up to the limit
C23_Witness ==
    /\ pc \in WhilePcs
    /\ fail_rounds = FailLimit
    /\ Len(collected) = 1
    /\ scrolls = FailLimit + 2

\* C24: in webscrape an advance made by a load-more or next-page click leaves
\* scroll_count unchanged; only the scroll fallback counts toward the cap.
C24_ClicksDoNotCount ==
    [][ (pc = "ws_advance" /\ advanced' \in {"load_more", "pagination"})
            => (scrolls' = scrolls) ]_vars

\* The fallback chain, in priority order
Priority == <<"load_more", "pagination", "scroll">>

\* C25: every advance of webscrape tries the mechanisms in priority order
\* (load more, then next page only if load more failed, then the scroll only
\* if both failed), and exactly one takes effect: the last one tried.
C25_FallbackChainInOrder ==
    [][ (pc = "ws_advance" /\ pc' = "ws_while" /\ WsAdvanceGuard) =>
            /\ attempts' # <<>>
            /\ IsPrefix(attempts', Priority)
            /\ advanced' = Priority[Len(attempts')]
      ]_vars

\* The load-more click failed and the next-page click advanced the view
C25_Witness ==
    /\ plugin = "webscrape"
    /\ pc = "ws_while"
    /\ attempts = <<"load_more", "pagination">>
    /\ advanced = "pagination"

\* C26: in deepscrape every snapshot and Oracle call that follows a pause (the
\* pause after the navigation to an engine, the pause after a scroll, the
\* pause inside _analyze_page_depth) is made only if now < deadline.
C26_DeadlineCheckedAfterDelay ==
    [][ ( \/ pc = "ds_while" /\ pc' \in {"ds_item", "PlaywrightError"}
          \/ pc = "ds_settled" /\ pc' # "ds_settled" )
        => (now < deadline) ]_vars

\* The while condition of the plugin's loop
LoopGoesOn ==
    CASE plugin = "deepscrape" -> DsWhileCond
      [] plugin = "webscrape" -> WsWhileCond
      [] OTHER -> FbWhileCond

\* The command has returned to the prompt
Returned == pc \in {"prompt_ok", "prompt_error", "prompt_unknown_command", "refused"}

LacksContent(c) ==
    IF plugin = "fb"
    THEN FbSkipsKind(c) \/ (c.post_text # NULL /\ FbSkipsText(c))
    ELSE c.title # NULL /\ ~Truthy(Strip(Get(c.title, "")))

\* C28: in webscrape and fb-scrape, a step that skips a candidate for lack of
\* content leaves the seen-set as it is.
C28_RejectedNotMarkedSeen ==
    [][ \A c \in BatchItems :
            (/\ InForLoop
             /\ c.shape = "dict"
             /\ LacksContent(c)
             /\ LooksAt(c)
             /\ pc' \in ItemPcs)
            => seen' = seen
      ]_vars

\* C29: in fb-scrape, a step that looks at a candidate without a post_id and
\* with sufficient content accepts it: its synthesized identity is not one
\* given to another candidate before.
C29_IdlessCandidateAccepted ==
    [][ \A c \in BatchItems :
            (/\ plugin = "fb"
             /\ InForLoop
             /\ c.shape = "dict"
             /\ c.post_id = MISSING
             /\ c.post_text # NULL
             /\ ~LacksContent(c)
             /\ LooksAt(c))
            => (collected' # collected \/ pc' \in Exceptions)
      ]_vars

\* The body of the for loop of the plugin for the candidate c
ForBody(c) ==
    CASE plugin = "deepscrape" -> DsCandidate(c)
      [] plugin = "webscrape" -> WsCandidate(c)
      [] OTHER -> FbCandidate(c)

\* The last record of a list
Last(list) == list[Len(list)]

\* C30: in every collector, every step leaves the previous `collected` as an
\* unchanged prefix of the new one and appends at most one record; the record
\* appended is the one of the candidate the loop is looking at (in deepscrape
\* at depth >= 1, of the candidate under enrichment), so the records are in
\* the order the Oracle returned their candidates.
C30_AppendOnlyInDiscoveryOrder ==
    [][ /\ IsPrefix(collected, collected')
        /\ Len(collected') <= Len(collected) + 1
        /\ (collected' # collected) => (pc \in ItemPcs \cup EnrichPcs)
        /\ (collected' # collected /\ pc \in EnrichPcs) =>
              (Last(collected').url = record.url)
        /\ \A c \in BatchItems :
              (collected' # collected /\ pc \in ItemPcs /\ ForBody(c)) =>
                 Identity(Last(collected')) =
                    (IF plugin = "deepscrape" THEN c.url ELSE CandIdentity(c))
      ]_vars

\* Two records accepted in two rounds, and the run returned
C30_Witness ==
    /\ pc = "done"
    /\ Len(collected) = 2
    /\ rounds >= 2
    /\ new_in_batch = 1
    /\ SinkHoldsCollected

\* The post has text content, is not hashtag-only, and its stripped text has
\* at least 10 characters
HasContent(c) ==
    /\ c.shape = "dict"
    /\ IsTrue(c.has_text_content)
    /\ ~IsTrue(c.is_hashtag_only)
    /\ c.post_text \notin {MISSING, NULL}
    /\ Len(Strip(c.post_text)) >= MIN_TEXT_FB

\* C31: in fb-scrape a step of the for loop appends a record only for a
\* candidate with has_text_content true, is_hashtag_only false and a stripped
\* post_text of at least 10 characters; a candidate without them leaves
\* `collected` and the count of the round as they are, and every record holds
\* a text of at least 10 characters.
C31_OnlyPostsWithContent ==
    /\ [](plugin = "fb" =>
            \A i \in 1..Len(collected) : Len(collected[i].post_text) >= MIN_TEXT_FB)
    /\ [][ \A c \in BatchItems :
              (plugin = "fb" /\ InForLoop /\ FbCandidate(c)) =>
                 /\ (collected' # collected) => HasContent(c)
                 /\ ~HasContent(c) =>
                       (collected' = collected /\ new_in_batch' = new_in_batch)
          ]_vars

\* A post whose text reaches 10 characters only without its blanks around it
\* was accepted after a hashtag-only or media-only post was skipped
C31_Witness ==
    /\ plugin = "fb"
    /\ pc = "done"
    /\ Len(collected) = 1
    /\ collected[1].post_text = "a short one"
    /\ seen = {"p1", "p2"}

\* C32: in fb-scrape the comment cells of every accepted post are empty or
\* made of that post's own comments, and the comment handling of a post whose
\* page element was not located raises nothing.
C32_CommentsAreThePostsOwn ==
    plugin = "fb" =>
       /\ pc # "UnboundLocalError"
       /\ \A i \in 1..Len(collected) :
             collected[i].comments_of \in {"", collected[i].post_id}

\* C33: the discussion entries of a record can be recovered from its cells:
\* no other list of entries is written as the same cells, and the five
\* comment cells of fb-scrape split into the same number of parts.
C33_CompositeCellsLossless ==
    (pc = "cells" /\ collected # <<>>) =>
       LET cells == collected[1].comments IN
       /\ \A other \in EntryLists :
             Cells(other) = cells => Entries(other) = Entries(record.comments)
       /\ \A j, k \in 1..Len(cells) :
             Len(Split(cells[j], <<>>)) = Len(Split(cells[k], <<>>))

\* C35: in deepscrape the record under enrichment carries the url of the
\* accepted search result, no step of the enrichment changes it, the record
\* appended after the enrichment has that url whatever the depth Oracle
\* replied, and the rows written to the sink carry the urls of `collected`.
C35_EnrichmentKeepsIdentity ==
    /\ [][ plugin = "deepscrape" =>
             /\ \A c \in BatchItems :
                   (pc = "ds_item" /\ DsCandidate(c) /\ pc' \in EnrichPcs)
                   => record'.url = c.url
             /\ (pc \in EnrichPcs /\ pc' \in EnrichPcs) => record'.url = record.url
             /\ (pc \in EnrichPcs /\ pc' \notin EnrichPcs /\ pc' \notin Exceptions)
                   => collected' = Append(collected, [collected'[Len(collected')] EXCEPT
                                                        !.url = record.url])
          ]_vars
    /\ [](plugin = "deepscrape" /\ pc = "done" =>
            /\ Len(csv) = Len(collected) + 1
            /\ \A i \in 1..Len(collected) : csv[i + 1][IdColumn] = collected[i].url)

\* A record whose page the depth Oracle described under another url was
\* accepted and written
C35_Witness ==
    /\ plugin = "deepscrape"
    /\ pc = "done"
    /\ detail = "parsed"
    /\ Len(collected) = 1
    /\ collected[1].url = "u2"
    /\ collected[1].summary = "S"
    /\ csv[2][IdColumn] = "u2"

\* C36: every record of deepscrape's `collected` has a non-empty url and a
\* non-empty title, at every depth and whatever the depth Oracle replied.
C36_EnrichedRecordPassesFilter ==
    plugin = "deepscrape" =>
       \A i \in 1..Len(collected) :
          Truthy(collected[i].url) /\ Truthy(collected[i].title)

\* How many rows of a file are header rows
RECURSIVE Headers(_)
Headers(rows) ==
    IF rows = <<>> THEN 0
    ELSE (IF Head(rows) = HeaderRow THEN 1 ELSE 0) + Headers(Tail(rows))

\* How many rows of a file are the row r
RECURSIVE Copies(_, _)
Copies(rows, r) ==
    IF rows = <<>> THEN 0
    ELSE (IF Head(rows) = r THEN 1 ELSE 0) + Copies(Tail(rows), r)

\* How many records of a list are written as the row r
RECURSIVE Wrote(_, _)
Wrote(rs, r) ==
    IF rs = <<>> THEN 0
    ELSE (IF Row(Head(rs)) = r THEN 1 ELSE 0) + Wrote(Tail(rs), r)

\* C34: when two runs have appended to one path that did not exist, in any
\* interleaving of their steps, the file holds exactly one header row and
\* every row of both runs, as often as the runs wrote it.
C34_ConcurrentAppendsOneHeader ==
    (pc = "race" /\ writers # <<>> /\ \A w \in Writers : writers[w].at = "closed") =>
       /\ Headers(csv) = 1
       /\ \A r \in { Row(rec) : rec \in RaceResults } :
             Copies(csv, r) = Wrote(writers[1].results, r) + Wrote(writers[2].results, r)

\* A command line that is a configuration failure: no credential, a depth that
\* is not one of 0..3, or an engine name that is not supported
ConfigurationFailure ==
    \/ ~args.key
    \/ plugin = "deepscrape" /\ args.depth \notin {"0", "1", "2", "3"}
    \/ plugin = "webscrape" /\ Lower(args.location) \notin ValidEngines

\* C18: with a configuration failure the command prints an error and the run
\* is never attempted: no browser launch, no Oracle call, no sink write.
C18_ConfigurationFailureRefused ==
    ConfigurationFailure => (pc \in {"command", "refused"} /\ ~csv_exists)

====
